---- MODULE Spec2Model ----
(***************************************************************************)
(* A model of the murgabazar blog backend (src/main.py, src/models.py,     *)
(* src/schemas.py): the users and blogs tables, the uploads directory and  *)
(* the HTTP handlers that act on them.  Every handler is one action; the   *)
(* last response is kept in resp.  The signup handler is also given as two *)
(* steps (its SELECT and its INSERT/COMMIT) for the concurrent             *)
(* specification SpecC.                                                    *)
(***************************************************************************)
EXTENDS Integers, Sequences, FiniteSets, TLC

VARIABLES users, blogs, files, resp, reqs

vars == <<users, blogs, files, resp, reqs>>

-----------------------------------------------------------------------------
(* Input domains *)

Emails == {"a@x.com", "b@x.com"}
Passwords == {"p1", "p2"}
Salts == {1}
Titles == {"T", "T2"}
Contents == {"C"}
Tags == {"G"}
Filenames == {"f.png"}
Blobs == {<<1>>, <<2>>}
Procs == {1, 2, 3}

\* Largest blog id the model lets the database assign.
MaxBlogId == 2

BlogIds == 1..MaxBlogId

-----------------------------------------------------------------------------
(* Python values *)

None == <<>>
Some(v) == <<v>>
Optional(S) == {None} \cup {Some(v) : v \in S}

UPLOAD_DIR == "uploads"

\* os.path.join(UPLOAD_DIR, filename): a path is its sequence of components.
PathJoin(dir, filename) == <<dir, filename>>

Range(s) == {s[i] : i \in DOMAIN s}

\* Query.first(): None when no row matches, otherwise the first row.
QueryFirst(rows) ==
  IF rows = {} THEN None
  ELSE Some(CHOOSE r \in rows : \A q \in rows : r.id <= q.id)

-----------------------------------------------------------------------------
(* auth.py and dependencies.py *)

Digest(salt, password) == <<"H", salt, password>>

hash_password(password, salt) ==
  [salt |-> salt, digest |-> Digest(salt, password)]

verify_password(password, hashed) ==
  hashed.digest = Digest(hashed.salt, password)

create_access_token(sub) == [sub |-> sub, valid |-> TRUE]

\* A token a client can present: none, a malformed/expired/badly signed one,
\* or one issued by login for a registered user.
TokenInputs ==
  {None}
    \cup {Some([sub |-> e, valid |-> FALSE]) : e \in Emails}
    \cup {Some(create_access_token(u.email)) : u \in Range(users)}

get_current_user(token) ==
  IF token = None \/ ~token[1].valid THEN None
  ELSE QueryFirst({u \in Range(users) : u.email = token[1].sub})

-------------------------------------------------------------------------------------------------------------------------------------------------
(* State *)

IdleReq == [pc |-> "idle", email |-> "", password |-> None, status |-> 0]

\* The response in flight, with the request it answers: the operation, the
\* token presented and the caller it resolved to (0 when none), the blog id
\* and the form.
NoResp ==
  [op |-> "none", status |-> 0, token |-> None, user |-> 0, id |-> 0,
   req |-> None, body |-> None]

Respond(op, status, token, user, id, req, body) ==
  resp' = [op |-> op, status |-> status, token |-> token, user |-> user,
           id |-> id, req |-> req, body |-> body]

\* The form of a POST or PUT on /blogs, with how the write of its file ends.
BlogForm(title, content, tags, image, w) ==
  Some([title |-> title, content |-> content, tags |-> tags, image |-> image,
        write |-> w])

Init ==
  /\ users = <<>>
  /\ blogs = {}
  /\ files = <<>>
  /\ resp = NoResp
  /\ reqs = [p \in Procs |-> IdleReq]

---------
(* Persistence *)

\* db.query(User).filter(User.email == email).first()
UserByEmail(us, email) == QueryFirst({u \in Range(us) : u.email = email})

\* db.add(new_user); db.commit() against the unique index on users.email.
InsertUser(us, email, hashed) ==
  IF \E u \in Range(us) : u.email = email
    THEN [ok |-> FALSE, users |-> us]
    ELSE [ok |-> TRUE,
          users |-> Append(us, [id |-> Len(us) + 1, email |-> email,
                                password |-> hashed])]

\* OwnedBlog without the owner_id condition of the filter.
OwnedBlog_AnyOwner(id, owner_id) ==
  QueryFirst({b \in blogs : b.id = id})

\* The rows of blogs with this id and this owner (the filter of delete_blog
\* and update_blog).
OwnedBlog(id, owner_id) ==
  QueryFirst({b \in blogs : b.id = id /\ b.owner_id = owner_id})

\* The primary key the database assigns to a new blogs row: unused, and above
\* every id in the table (max+1 for a rowid table, possibly higher for a
\* sequence that has skipped ids).
MaxId(rows) ==
  IF rows = {} THEN 0 ELSE CHOOSE m \in {r.id : r \in rows} : \A r \in rows : r.id <= m

NewBlogIds == {i \in BlogIds : i > MaxId(blogs)}

\* Blog built without its owner_id argument.
Blog_NoOwner(id, title, content, tags, image, owner_id) ==
  [id |-> id, title |-> title, content |-> content, image |-> image,
   tags |-> tags, owner_id |-> 0]

\* Blog(title=..., content=..., tags=..., image=..., owner_id=...)
Blog(id, title, content, tags, image, owner_id) ==
  [id |-> id, title |-> title, content |-> content, image |-> image,
   tags |-> tags, owner_id |-> owner_id]

\* Form that stores the text of None instead of the default.
Form_Literal(value, default) == IF value = None THEN "None" ELSE value[1]

\* Form(default): the submitted value, or the default when the field is absent.
Form(value, default) == IF value = None THEN default ELSE value[1]

-----------------------------------------------------------------------------
(* Media store *)

Uploads == [filename : Filenames, file : Blobs]

\* How a write to the uploads directory can end: open() fails, or the copy
\* stops after `written` bytes.
WriteOutcomes(upload) ==
  {[opened |-> FALSE, written |-> 0]}
    \cup [opened : {TRUE}, written : 0..Len(upload.file)]

WriteOk(upload, w) == w.opened /\ w.written = Len(upload.file)

\* with open(image_path, "wb") as buffer: shutil.copyfileobj(image.file, buffer)
WriteFile(fs, path, upload, w) ==
  IF ~w.opened THEN fs
  ELSE [p \in DOMAIN fs \cup {path} |->
          IF p = path THEN SubSeq(upload.file, 1, w.written) ELSE fs[p]]

-----------------------------------------------------------------------------
(* Handlers *)

\* signup without its existence check.
EmailTaken_Never(us, email) == FALSE

EmailTaken(us, email) == UserByEmail(us, email) # None

signup(email, password, salt) ==
  LET req == Some([email |-> email, password |-> password]) IN
  /\ IF EmailTaken(users, email)
       THEN /\ Respond("signup", 400, None, 0, 0, req, None)
            /\ UNCHANGED users
       ELSE LET r == InsertUser(users, email, hash_password(password, salt)) IN
            IF r.ok
              THEN /\ users' = r.users
                   /\ Respond("signup", 200, None, 0, 0, req, None)
              ELSE /\ UNCHANGED users
                   /\ Respond("signup", 500, None, 0, 0, req, None)
  /\ UNCHANGED <<blogs, files, reqs>>

\* login without the password check.
LoginOk_NoPassword(email, password) == UserByEmail(users, email) # None

LoginOk(email, password) ==
  LET user == UserByEmail(users, email) IN
  ~(user = None \/ ~verify_password(password, user[1].password))

login(email, password) ==
  LET req == Some([email |-> email, password |-> password]) IN
  /\ IF LoginOk(email, password)
       THEN Respond("login", 200, None, 0, 0, req,
                    Some(create_access_token(email)))
       ELSE Respond("login", 401, None, 0, 0, req, None)
  /\ UNCHANGED <<users, blogs, files, reqs>>

\* A dependency that reads the subject of a token without verifying it.
Depends_Unverified(token) ==
  IF token = None THEN None
  ELSE QueryFirst({u \in Range(users) : u.email = token[1].sub})

\* current_user: User = Depends(get_current_user)
Depends(token) == get_current_user(token)

\* The dependency raised: the handler body does not run.
Reject401(op, token) ==
  /\ Respond(op, 401, token, 0, 0, None, None)
  /\ UNCHANGED <<users, blogs, files, reqs>>

create_blog(token, title, content, tags, image, w) ==
  LET current_user == Depends(token)
      req == BlogForm(Some(title), content, tags, image, w)
  IN
  IF current_user = None THEN Reject401("create_blog", token)
  ELSE
    /\ IF image # None /\ ~WriteOk(image[1], w)
         THEN /\ files' = WriteFile(files, PathJoin(UPLOAD_DIR, image[1].filename),
                                    image[1], w)
              /\ Respond("create_blog", 500, token, current_user[1].id, 0, req,
                         None)
              /\ UNCHANGED blogs
         ELSE \E id \in NewBlogIds :
              LET image_path == IF image = None THEN None
                                ELSE PathJoin(UPLOAD_DIR, image[1].filename)
                  blog == Blog(id, title, Form(content, ""), Form(tags, ""),
                               image_path, current_user[1].id)
              IN /\ files' = IF image = None THEN files
                             ELSE WriteFile(files, image_path, image[1], w)
                 /\ blogs' = blogs \cup {blog}
                 /\ Respond("create_blog", 200, token, current_user[1].id, id,
                            req, Some(blog))
    /\ UNCHANGED <<users, reqs>>

get_blogs ==
  /\ Respond("get_blogs", 200, None, 0, 0, None, Some(blogs))
  /\ UNCHANGED <<users, blogs, files, reqs>>

get_image(filename) ==
  LET path == PathJoin(UPLOAD_DIR, filename)
      req == Some([filename |-> filename])
  IN
  /\ IF path \notin DOMAIN files
       THEN Respond("get_image", 404, None, 0, 0, req, None)
       ELSE Respond("get_image", 200, None, 0, 0, req, Some(files[path]))
  /\ UNCHANGED <<users, blogs, files, reqs>>

delete_blog(token, id) ==
  LET current_user == Depends(token) IN
  IF current_user = None THEN Reject401("delete_blog", token)
  ELSE LET blog == OwnedBlog(id, current_user[1].id)
           Reply(status) ==
             Respond("delete_blog", status, token, current_user[1].id, id, None,
                     None)
       IN
    /\ IF blog = None
         THEN /\ Reply(404)
              /\ UNCHANGED blogs
         ELSE /\ blogs' = blogs \ {blog[1]}
              /\ Reply(200)
    /\ UNCHANGED <<users, files, reqs>>

\* ApplyFields with the defaults of create_blog for content and tags.
ApplyFields_Defaults(blog, title, content, tags) ==
  [blog EXCEPT !.title = IF title # None THEN title[1] ELSE @,
               !.content = IF content # None THEN content[1] ELSE "",
               !.tags = IF tags # None THEN tags[1] ELSE ""]

\* The assignments of update_blog to the loaded row before the image is
\* handled: only the fields that are not None.
ApplyFields(blog, title, content, tags) ==
  [blog EXCEPT !.title = IF title # None THEN title[1] ELSE @,
               !.content = IF content # None THEN content[1] ELSE @,
               !.tags = IF tags # None THEN tags[1] ELSE @]

\* get_db: the session of a request is closed when the request ends, and
\* what it has not committed is discarded.
get_db_close(rows, old, dirty) == rows

\* update_blog with db.commit() ahead of the image write.
Rollback_Flushed(rows, old, dirty) == (rows \ {old}) \cup {dirty}

\* The table after update_blog raised on the image write: the raise comes
\* before db.commit(), so the assignments to the row stay in the session.
Rollback(rows, old, dirty) == get_db_close(rows, old, dirty)

\* The table after db.commit() of the changed row.
Commit(rows, old, dirty) == (rows \ {old}) \cup {dirty}

update_blog(token, id, title, content, tags, image, w) ==
  LET current_user == Depends(token)
      req == BlogForm(title, content, tags, image, w)
  IN
  IF current_user = None THEN Reject401("update_blog", token)
  ELSE LET blog == OwnedBlog(id, current_user[1].id)
           Reply(status, body) ==
             Respond("update_blog", status, token, current_user[1].id, id, req,
                     body)
       IN
    /\ IF blog = None
         THEN /\ Reply(404, None)
              /\ UNCHANGED <<blogs, files>>
         ELSE LET dirty == ApplyFields(blog[1], title, content, tags) IN
              IF image = None
                THEN /\ blogs' = Commit(blogs, blog[1], dirty)
                     /\ Reply(200, Some(dirty))
                     /\ UNCHANGED files
                ELSE LET image_path == PathJoin(UPLOAD_DIR, image[1].filename)
                         saved == [dirty EXCEPT !.image = image_path]
                     IN /\ files' = WriteFile(files, image_path, image[1], w)
                        /\ IF WriteOk(image[1], w)
                             THEN /\ blogs' = Commit(blogs, blog[1], saved)
                                  /\ Reply(200, Some(saved))
                             ELSE /\ blogs' = Rollback(blogs, blog[1], dirty)
                                  /\ Reply(500, None)
    /\ UNCHANGED <<users, reqs>>

get_all_blogs_with_users ==
  /\ Respond("get_all_blogs_with_users", 200, None, 0, 0, None, Some(blogs))
  /\ UNCHANGED <<users, blogs, files, reqs>>

\* db.query(Blog).filter(Blog.id == id).first()
BlogById(rows, id) == QueryFirst({b \in rows : b.id = id})

get_blog_by_id(id) ==
  /\ IF BlogById(blogs, id) = None
       THEN Respond("get_blog_by_id", 404, None, 0, id, None, None)
       ELSE Respond("get_blog_by_id", 200, None, 0, id, None, BlogById(blogs, id))
  /\ UNCHANGED <<users, blogs, files, reqs>>

-----------------------------------------------------------------------------
(* signup as two steps, for requests handled concurrently *)

\* Lines 39-41: the SELECT, the 400 when it finds a row, else the new User.
signup_check(p, email, password, salt) ==
  /\ reqs[p].pc = "idle"
  /\ IF EmailTaken(users, email)
       THEN reqs' = [reqs EXCEPT ![p] = [pc |-> "done", email |-> email,
                                         password |-> None, status |-> 400]]
       ELSE reqs' = [reqs EXCEPT ![p] = [pc |-> "checked", email |-> email,
                       password |-> Some(hash_password(password, salt)),
                       status |-> 0]]
  /\ UNCHANGED <<users, blogs, files, resp>>

\* Lines 42-44: the INSERT and COMMIT; a violated unique index raises and the
\* exception handler answers 500.
signup_commit(p) ==
  /\ reqs[p].pc = "checked"
  /\ LET r == InsertUser(users, reqs[p].email, reqs[p].password[1]) IN
       /\ users' = r.users
       /\ reqs' = [reqs EXCEPT ![p].pc = "done",
                               ![p].status = IF r.ok THEN 200 ELSE 500]
  /\ UNCHANGED <<blogs, files, resp>>

-----------------------------------------------------------------------------
(* Specifications *)

\* A request that the authentication dependency rejects never reaches the
\* handler body, so one value of each form field stands for all of them.
Body(token, S) ==
  IF Depends(token) = None THEN {CHOOSE x \in S : TRUE} ELSE S

\* Likewise for a POST whose file cannot be written: create_blog raises before
\* it reads title, content or tags.
Unread(token, image, w, S) ==
  IF Depends(token) = None \/ (image # None /\ ~WriteOk(image[1], w))
    THEN {CHOOSE x \in S : TRUE}
    ELSE S

\* Likewise for a PUT that finds no row of the caller with this id; the form
\* that stands for all supplies every field.
Fields(token, id, S) ==
  IF Depends(token) = None \/ OwnedBlog(id, Depends(token)[1].id) = None
    THEN {CHOOSE x \in S : x # None}
    ELSE S

WriteInputs(image) ==
  IF image = None THEN {[opened |-> FALSE, written |-> 0]}
  ELSE WriteOutcomes(image[1])

\* No response is waiting to be sent: the next request is taken.
Idle == resp = NoResp

\* The response leaves the server.
SendResponse ==
  /\ resp # NoResp
  /\ resp' = NoResp
  /\ UNCHANGED <<users, blogs, files, reqs>>

Next ==
  \/ Idle /\ \E e \in Emails, pw \in Passwords, s \in Salts : signup(e, pw, s)
  \/ Idle /\ \E e \in Emails, pw \in Passwords : login(e, pw)
  \/ Idle /\ \E tok \in TokenInputs :
       \E img \in Body(tok, Optional(Uploads)) :
         \E w \in Body(tok, WriteInputs(img)) :
           \E t \in Unread(tok, img, w, Titles),
              c \in Unread(tok, img, w, Optional(Contents)),
              g \in Unread(tok, img, w, Optional(Tags)) :
             create_blog(tok, t, c, g, img, w)
  \/ Idle /\ get_blogs
  \/ Idle /\ \E f \in Filenames : get_image(f)
  \/ Idle /\ \E tok \in TokenInputs, id \in BlogIds : delete_blog(tok, id)
  \/ Idle /\ \E tok \in TokenInputs, id \in BlogIds :
       \E t \in Fields(tok, id, Optional(Titles)),
          c \in Fields(tok, id, Optional(Contents)),
          g \in Fields(tok, id, Optional(Tags)),
          img \in Fields(tok, id, Optional(Uploads)) :
         \E w \in Fields(tok, id, WriteInputs(img)) :
           update_blog(tok, id, t, c, g, img, w)
  \/ Idle /\ get_all_blogs_with_users
  \/ Idle /\ \E id \in BlogIds : get_blog_by_id(id)
  \/ SendResponse

Spec == Init /\ [][Next]_vars

NextC ==
  \/ \E p \in Procs, e \in Emails, pw \in Passwords, s \in Salts :
       signup_check(p, e, pw, s)
  \/ \E p \in Procs : signup_commit(p)

SpecC == Init /\ [][NextC]_vars

-----------------------------------------------------------------------------
(* Properties *)

Protected == {"create_blog", "update_blog", "delete_blog"}

\* The step is a successful request of b's owner on b, of one of these kinds.
ByOwner(b, ops) ==
  /\ resp'.op \in ops
  /\ resp'.status = 200
  /\ resp'.id = b.id
  /\ resp'.user = b.owner_id

\* C1: a PUT or DELETE on an existing blog by an authenticated user who is
\* not its owner answers 404 and leaves every blog row as it was.
C1_NonOwnerNotFound ==
  [][(/\ resp'.op \in {"update_blog", "delete_blog"}
      /\ resp'.user # 0
      /\ \E b \in blogs : b.id = resp'.id /\ b.owner_id # resp'.user)
       => (resp'.status = 404 /\ blogs' = blogs)]_vars

C1_Witness ==
  /\ resp.op = "update_blog"
  /\ resp.status = 404
  /\ resp.user # 0
  /\ resp.req[1].title # None
  /\ resp.req[1].image # None
  /\ \E b \in blogs : b.id = resp.id /\ b.owner_id # resp.user

\* C2: a signup with an email that is not stored answers 200 and stores a
\* user whose hash verifies the password; stored users stay stored; a signup
\* with a stored email answers 400 and leaves the users, hashes included, as
\* they were.
C2_SignupTwice ==
  [][/\ \A i \in DOMAIN users : i \in DOMAIN users' /\ users'[i] = users[i]
     /\ resp'.op = "signup" =>
          LET e == resp'.req[1].email
              pw == resp'.req[1].password
          IN IF \E u \in Range(users) : u.email = e
               THEN resp'.status = 400 /\ users' = users
               ELSE /\ resp'.status = 200
                    /\ \E u \in Range(users') :
                         u.email = e /\ verify_password(pw, u.password)]_vars

C2_Witness ==
  /\ resp.op = "signup"
  /\ resp.status = 400
  /\ \E u \in Range(users) :
       /\ u.email = resp.req[1].email
       /\ ~verify_password(resp.req[1].password, u.password)

\* C3: login answers 200 with a token for the email exactly when a stored
\* user has that email and the password verifies against its hash, and 401
\* otherwise; it changes neither users nor blogs.
C3_LoginIff ==
  [][resp'.op = "login" =>
       LET e == resp'.req[1].email
           pw == resp'.req[1].password
           ok == \E u \in Range(users) :
                   u.email = e /\ verify_password(pw, u.password)
       IN /\ ok => (/\ resp'.status = 200
                    /\ resp'.body = Some(create_access_token(e)))
          /\ ~ok => (resp'.status = 401 /\ resp'.body = None)
          /\ users' = users
          /\ blogs' = blogs]_vars

C3_Witness ==
  /\ resp.op = "login"
  /\ resp.status = 401
  /\ \E u \in Range(users) :
       /\ u.email = resp.req[1].email
       /\ ~verify_password(resp.req[1].password, u.password)

\* A successful POST /blogs/ stores a row with the submitted title, the
\* submitted or empty content and tags and the caller as owner, and answers
\* with it; GET /blogs/{id} and GET /blogs/ answer from the table.
C4_Created ==
  (resp'.op = "create_blog" /\ resp'.status = 200) =>
    LET f == resp'.req[1] IN
    \E r \in blogs' :
      /\ r.id = resp'.id
      /\ r.title = f.title[1]
      /\ r.content = (IF f.content = None THEN "" ELSE f.content[1])
      /\ r.tags = (IF f.tags = None THEN "" ELSE f.tags[1])
      /\ r.owner_id = get_current_user(resp'.token)[1].id
      /\ resp'.body = Some(r)
      /\ BlogById(blogs', r.id) = Some(r)

C4_Read ==
  /\ resp'.op = "get_blog_by_id" =>
       \A b \in blogs :
         b.id = resp'.id => (resp'.status = 200 /\ resp'.body = Some(b))
  /\ resp'.op = "get_blogs" => (resp'.status = 200 /\ resp'.body = Some(blogs))

\* C4 as stated: a created blog is returned with the same title, content,
\* tags and owner_id from its creation until its owner deletes it.
C4_Original ==
  [][/\ C4_Created
     /\ C4_Read
     /\ \A b \in blogs :
          ~ByOwner(b, {"delete_blog"}) =>
            \E r \in blogs' :
              /\ r.id = b.id
              /\ r.title = b.title
              /\ r.content = b.content
              /\ r.tags = b.tags
              /\ r.owner_id = b.owner_id]_vars

\* C4, amended: a created blog is returned with the same title, content and
\* tags until its owner updates or deletes it, and with the same owner_id
\* until its owner deletes it, whatever other users do.
C4_Amended ==
  [][/\ C4_Created
     /\ C4_Read
     /\ \A b \in blogs :
          /\ ~ByOwner(b, {"delete_blog"}) =>
               \E r \in blogs' : r.id = b.id /\ r.owner_id = b.owner_id
          /\ ~ByOwner(b, {"delete_blog", "update_blog"}) =>
               (b \in blogs' /\ BlogById(blogs', b.id) = Some(b))]_vars

C4_Witness ==
  /\ resp.op = "get_blog_by_id"
  /\ resp.status = 200
  /\ resp.body[1].content = ""
  /\ resp.body[1].tags = ""
  /\ \E b \in blogs : b.owner_id # resp.body[1].owner_id

\* C5: a successful PUT replaces the row by one that takes each supplied
\* field from the form (the image as its path under the upload directory)
\* and every other field, id and owner_id included, from the old row; every
\* other row and every user is unchanged.
C5_PartialUpdate ==
  [][(resp'.op = "update_blog" /\ resp'.status = 200) =>
       LET f == resp'.req[1] IN
       \E b \in blogs :
         /\ b.id = resp'.id
         /\ LET r == [id |-> b.id,
                      title |-> IF f.title = None THEN b.title ELSE f.title[1],
                      content |-> IF f.content = None THEN b.content
                                  ELSE f.content[1],
                      tags |-> IF f.tags = None THEN b.tags ELSE f.tags[1],
                      image |-> IF f.image = None THEN b.image
                                ELSE <<UPLOAD_DIR, f.image[1].filename>>,
                      owner_id |-> b.owner_id]
            IN /\ blogs' = (blogs \ {b}) \cup {r}
               /\ resp'.body = Some(r)
         /\ users' = users]_vars

C5_Witness ==
  /\ resp.op = "update_blog"
  /\ resp.status = 200
  /\ resp.req[1].tags # None
  /\ resp.req[1].title = None
  /\ resp.req[1].content = None
  /\ resp.req[1].image = None
  /\ resp.body[1].content # ""
  /\ resp.body[1].image # None
  /\ \E b \in blogs : b.id # resp.id

\* C6 as stated: after a successful upload the file under its name holds the
\* uploaded bytes, GET /images/{filename} answers with the bytes of the file,
\* and the file of a blog's image keeps its bytes for as long as the blog
\* keeps the image and no new image is uploaded for that blog.
C6_RoundTrip ==
  [][/\ (resp'.op \in {"create_blog", "update_blog"} /\ resp'.status = 200
           /\ resp'.req[1].image # None) =>
          LET path == <<UPLOAD_DIR, resp'.req[1].image[1].filename>> IN
          path \in DOMAIN files' /\ files'[path] = resp'.req[1].image[1].file
     /\ resp'.op = "get_image" =>
          LET path == <<UPLOAD_DIR, resp'.req[1].filename>> IN
          path \in DOMAIN files =>
            (resp'.status = 200 /\ resp'.body = Some(files[path]))
     /\ \A b \in blogs :
          (/\ b.image # None
           /\ b.image \in DOMAIN files
           /\ b \in blogs'
           /\ ~(ByOwner(b, {"update_blog"}) /\ resp'.req[1].image # None))
            => files'[b.image] = files[b.image]]_vars

\* C7: the owner_id of every stored blog is the id of a stored user, and no
\* step changes the owner_id of a blog.
C7_OwnerExists ==
  [][/\ \A b \in blogs' : \E u \in Range(users') : u.id = b.owner_id
     /\ \A b \in blogs : \A r \in blogs' :
          r.id = b.id => r.owner_id = b.owner_id]_vars

C7_Witness ==
  /\ resp.op = "update_blog"
  /\ resp.status = 200
  /\ \E b \in blogs : \E r \in blogs : b.owner_id # r.owner_id

\* C8: a request on a protected route with no token or an invalid one
\* answers 401 and leaves users, blogs and files as they were.
C8_Unauthenticated ==
  [][(/\ resp'.op \in Protected
      /\ (resp'.token = None \/ ~resp'.token[1].valid))
       => (/\ resp'.status = 401
           /\ users' = users
           /\ blogs' = blogs
           /\ files' = files)]_vars

C8_Witness ==
  /\ resp.op \in Protected
  /\ resp.status = 401
  /\ resp.token # None
  /\ \E u \in Range(users) : u.email = resp.token[1].sub
  /\ blogs # {}

\* C9 as stated: with signups for one email interleaved, at most one row has
\* that email, at most one request answers 200 (one does once all have
\* answered), and every other request answers 400.
C9_ConcurrentSignup ==
  \A e \in Emails :
    LET done == {p \in Procs : reqs[p].pc = "done" /\ reqs[p].email = e}
        won == {p \in done : reqs[p].status = 200}
        open == {p \in Procs : reqs[p].pc = "checked" /\ reqs[p].email = e}
    IN /\ Cardinality({i \in DOMAIN users : users[i].email = e}) <= 1
       /\ Cardinality(won) <= 1
       /\ (done # {} /\ open = {}) => Cardinality(won) = 1
       /\ \A p \in done \ won : reqs[p].status = 400

\* C10: a PUT by the owner whose image cannot be written answers 500 and
\* leaves every blog row as it was.
C10_FailedWrite ==
  [][(/\ resp'.op = "update_blog"
      /\ resp'.user # 0
      /\ \E b \in blogs : b.id = resp'.id /\ b.owner_id = resp'.user
      /\ resp'.req[1].image # None
      /\ ~(/\ resp'.req[1].write.opened
           /\ resp'.req[1].write.written = Len(resp'.req[1].image[1].file)))
       => (resp'.status = 500 /\ blogs' = blogs)]_vars

C10_Witness ==
  /\ resp.op = "update_blog"
  /\ resp.status = 500
  /\ resp.req[1].title # None
  /\ resp.req[1].write.opened
  /\ \E b \in blogs : b.id = resp.id /\ b.title # resp.req[1].title[1]

====
